---- MODULE Spec2Model ----
(***************************************************************************)
(* Model of the render hardware interface of GoldNotch/Engine:             *)
(*   - MeshPipeline (Source/Rendering/VulkanImpl/Pipelines/MeshPipeline.cpp)*)
(*     the cache of bufferized geometry and the per-object draw dispatch;  *)
(*   - PipelineBuilder (Source/Graphics/RHI/Vulkan/Utils/PipelineBuilder.cpp)*)
(*     and two threads interleaved in MeshPipeline::ProcessObject;         *)
(*   - ICommandBuffer (Source/Graphics/RHI/Context.hpp), whose             *)
(*     implementation is modelled from the written specification.          *)
(* Each subsystem has its own specification over the shared variables.     *)
(***************************************************************************)
EXTENDS Integers, Sequences, FiniteSets, TLC

VARIABLES
  \* ---- MeshPipeline and its collaborators
  mem,            \* host memory: content of the application's arrays
  cache,          \* MeshPipeline::cache : StaticMesh -> (vertex buffer, index buffer)
  buffers,        \* live GPU buffers of the memory manager: handle -> record
  nextBuffer,     \* next fresh buffer handle of the memory manager
  uploads,        \* per StaticMesh key: completed Map/memcpy/Flush uploads
  timer,          \* MeshPipeline::timer, in steps of 0.001
  frame_index,    \* in-flight frame index the renderer passes to ProcessObject
  frameUploads,   \* uniform Upload calls executed during the current frame
  calls,          \* ProcessObject calls made so far
  lastCall,       \* the last ProcessObject call: input, outcome, what it did
  \* ---- PipelineBuilder and the driver objects it creates
  m_lineWidth,
  m_polygonMode,
  m_cullingMode,
  m_frontFace,
  m_blendEnabled,
  m_blendColorOp,
  m_blendAlphaOp,
  m_blendSrcColorFactor,
  m_blendDstColorFactor,
  m_blendSrcAlphaFactor,
  m_blendDstAlphaFactor,
  m_attachedShaders,        \* sequence of <<ShaderType, path>>
  m_dynamicStates,
  m_colorBlendAttachments,
  shaderModules,            \* live shader modules of the device
  nextModule,               \* next fresh shader-module handle
  makes,                    \* PipelineBuilder::Make calls made so far
  builderOp,                \* the last operation applied to the builder
  resetClean,               \* Reset() was called and nothing configured since
  lastMake,                 \* the last Make call: request, outcome, what it did
  \* ---- command buffers (ICommandBuffer)
  cbState,        \* per buffer: "Idle" or "Writing"
  cbCommands,     \* per buffer: the commands it holds, in order
  cbSerial,       \* commands recorded so far, over all buffers
  cbMerged,       \* accepted AddCommands calls so far
  cbSubmitted,    \* whether the executable buffer was submitted, and its stream
  cbResult,       \* the last command-buffer operation and whether it was accepted
  \* ---- layout builders and the driver's layout objects
  m_descriptorsLayout, \* DescriptorSetLayoutBuilder: the declared bindings
  m_layouts,           \* PipelineLayoutBuilder: the descriptor set layouts
  layoutObjects,       \* live layout objects of the driver: handle -> record
  nextLayout,          \* next fresh layout handle
  layoutMakes,         \* layout Make calls made so far
  lastLayoutMake,      \* the last layout Make call: request and outcome
  \* ---- framebuffer (IFramebuffer) and swapchain (ISwapchain)
  fbRequested,    \* the extent given to the last SetExtent
  fbEffective,    \* the extent of the framebuffer's driver objects
  fbResult,       \* the last framebuffer operation
  scOpen,         \* whether a frame is open (BeginFrame without EndFrame yet)
  scFrameIndex,   \* the in-flight frame index
  scImage,        \* the image acquired for the open frame
  scRecorded,     \* the commands recorded into the open frame
  scSerial,       \* commands recorded so far, over all frames
  scSubmitted,    \* the frames ended so far: commands, image, frame index
  scResult,       \* the last swapchain operation and whether it was accepted
  \* ---- two threads inside MeshPipeline::ProcessObject
  threads,        \* per thread: its position in ProcessObject and its locals
  externalLock,   \* whether the callers serialize their calls with a lock
  lockHolder,     \* the thread that holds the callers' lock
  entries,        \* per StaticMesh key: the nodes the cache holds for it
  raced           \* whether an unsynchronized cache.insert has happened

meshVars == <<mem, cache, buffers, nextBuffer, uploads, timer, frame_index,
              frameUploads, calls, lastCall>>

rasterVars == <<m_lineWidth, m_polygonMode, m_cullingMode, m_frontFace>>

blendVars == <<m_blendEnabled, m_blendColorOp, m_blendAlphaOp,
               m_blendSrcColorFactor, m_blendDstColorFactor,
               m_blendSrcAlphaFactor, m_blendDstAlphaFactor>>

builderVars == <<rasterVars, blendVars, m_attachedShaders, m_dynamicStates,
                 m_colorBlendAttachments, shaderModules, nextModule, makes,
                 builderOp, resetClean, lastMake>>

cmdVars == <<cbState, cbCommands, cbSerial, cbMerged, cbSubmitted, cbResult>>

layoutVars == <<m_descriptorsLayout, m_layouts, layoutObjects, nextLayout,
                layoutMakes, lastLayoutMake>>

frameVars == <<fbRequested, fbEffective, fbResult, scOpen, scFrameIndex,
               scImage, scRecorded, scSerial, scSubmitted, scResult>>

raceVars == <<threads, externalLock, lockHolder, entries, raced>>
vars == <<meshVars, builderVars, cmdVars, layoutVars, frameVars, raceVars>>

\* What the operations of one subsystem leave alone.
notMeshVars == <<builderVars, cmdVars, layoutVars, frameVars, raceVars>>

notBuilderVars == <<meshVars, cmdVars, layoutVars, frameVars, raceVars>>

notCmdVars == <<meshVars, builderVars, layoutVars, frameVars, raceVars>>

notLayoutVars == <<meshVars, builderVars, cmdVars, frameVars, raceVars>>

notFrameVars == <<meshVars, builderVars, cmdVars, layoutVars, raceVars>>

\* What a thread inside ProcessObject leaves alone besides the mesh pipeline.
notMeshRaceVars == <<builderVars, cmdVars, layoutVars, frameVars>>

-----------------------------------------------------------------------------
(* Bounds of the model *)

MaxCalls == 2
MaxVertices == 3
MaxIndices == 1
FramesInFlight == 2
MaxShaders == 2
MaxMakes == 2
MaxRecorded == 2
MaxMerges == 2
MaxLayoutMakes == 2
MaxFrames == 2
MaxFrameCommands == 2

(* Program constants *)

SizeofGlVec2 == 8
SizeofGlVec3 == 12
SizeofUint32 == 4
VK_NULL_HANDLE == 0

-----------------------------------------------------------------------------
(* Host memory and StaticMesh values *)

VertexArrays == {"vA", "vB"}
ColorArrays == {"cA"}
IndexArrays == {"iA"}
NullPtr == "nullptr"
HostAddr == VertexArrays \cup ColorArrays \cup IndexArrays
Content == {"p", "q"}

\* The host memories considered: vA, cA and iA hold "p"; vB holds the same
\* bytes as vA or different ones.
HostMemories ==
  {[a \in HostAddr |-> IF a = "vB" THEN x ELSE "p"] : x \in Content}

\* The vertex counts considered: a single vertex and the largest mesh.
VertexCounts == {1, MaxVertices}

IndexCounts == 0..MaxIndices

\* StaticMesh as ProcessObject uses it: three array pointers and two counts.
\* A mesh without indices has a null index pointer.
StaticMesh ==
  {m \in [vertices : VertexArrays, colors : ColorArrays,
          indices : IndexArrays \cup {NullPtr},
          vertices_count : VertexCounts, indices_count : IndexCounts] :
     (m.indices = NullPtr) <=> (m.indices_count = 0)}

NoMesh ==
  [vertices |-> NullPtr, colors |-> NullPtr, indices |-> NullPtr,
   vertices_count |-> 0, indices_count |-> 0]

\* The bytes memcpy reads: n elements starting at ptr.
Payload(ptr, n) == [i \in 1..n |-> mem[ptr]]

\* The geometry payload of a mesh: what the spec calls its raw bytes.
MeshPayload(m) ==
  [vertices |-> Payload(m.vertices, m.vertices_count),
   colors |-> Payload(m.colors, m.vertices_count),
   indices |-> IF m.indices_count > 0
                 THEN Payload(m.indices, m.indices_count) ELSE <<>>]

-----------------------------------------------------------------------------
(* std::hash<StaticMesh> and operator==(StaticMesh, StaticMesh) *)

\* hash_combine over vertices_count and the vertices pointer.
MeshHash(m) == <<m.vertices_count, m.vertices>>

\* A comparison of the hashed fields alone.
MeshEqualHashedFields(m1, m2) ==
  /\ m1.vertices = m2.vertices
  /\ m1.vertices_count = m2.vertices_count

\* A comparison of what the pointers refer to instead of the pointers.
MeshEqualByContent(m1, m2) == MeshPayload(m1) = MeshPayload(m2)

\* memcmp over the whole struct: the pointers and the counts, not the arrays.
MeshEqual(m1, m2) ==
  /\ m1.vertices = m2.vertices
  /\ m1.colors = m2.colors
  /\ m1.indices = m2.indices
  /\ m1.vertices_count = m2.vertices_count
  /\ m1.indices_count = m2.indices_count

\* A lookup that finds nothing.
CacheFindNothing(c, m) == {}

\* unordered_map::find: the keys of the bucket that compare equal.
CacheFind(c, m) ==
  {k \in DOMAIN c : MeshHash(k) = MeshHash(m) /\ MeshEqual(k, m)}

-----------------------------------------------------------------------------
(* The cache-miss path of MeshPipeline::ProcessObject *)

\* A vertex buffer sized for the positions alone.
VertexBufferSizePositionsOnly(m) == m.vertices_count * SizeofGlVec2

VertexBufferSize(m) == m.vertices_count * (SizeofGlVec2 + SizeofGlVec3)

IndexBufferSize(m) == m.indices_count * SizeofUint32

\* Colors placed at the start of the buffer, over the positions.
ColorsOffsetZero(m) == 0

ColorsOffset(m) == m.vertices_count * SizeofGlVec2

\* The memory manager's AllocBuffer(size, usage): a buffer with a fresh handle,
\* or a construction failure thrown at the allocation site (ok = FALSE).
AllocBuffer(size, usage, ok, h) ==
  [op |-> "AllocBuffer", size |-> size, usage |-> usage,
   buffer |-> IF ok THEN h ELSE VK_NULL_HANDLE, ok |-> ok]

CopyEvent(h, offset, src, bytes) ==
  [op |-> "memcpy", buffer |-> h, offset |-> offset, src |-> src,
   bytes |-> bytes]

BufferEvent(op, h) == [op |-> op, buffer |-> h]

\* An upload that inserts and draws without flushing the vertex buffer.
VertexUploadEventsUnflushed(m, h) ==
  << BufferEvent("Map", h),
     CopyEvent(h, 0, m.vertices, m.vertices_count * SizeofGlVec2),
     CopyEvent(h, m.vertices_count * SizeofGlVec2, m.colors,
               m.vertices_count * SizeofGlVec3),
     BufferEvent("Unmap", h) >>

\* Map, two memcpy (positions, then colors behind them), unmap, Flush.
VertexUploadEvents(m, h) ==
  << BufferEvent("Map", h),
     CopyEvent(h, 0, m.vertices, m.vertices_count * SizeofGlVec2),
     CopyEvent(h, ColorsOffset(m), m.colors, m.vertices_count * SizeofGlVec3),
     BufferEvent("Unmap", h),
     BufferEvent("Flush", h) >>

IndexUploadEvents(m, h) ==
  << BufferEvent("Map", h),
     CopyEvent(h, 0, m.indices, m.indices_count * SizeofUint32),
     BufferEvent("Unmap", h),
     BufferEvent("Flush", h) >>

VertexBufferRecord(m) ==
  [size |-> VertexBufferSize(m), usage |-> "VERTEX_BUFFER",
   data |-> << [offset |-> 0, bytes |-> m.vertices_count * SizeofGlVec2,
                content |-> Payload(m.vertices, m.vertices_count)],
               [offset |-> ColorsOffset(m),
                bytes |-> m.vertices_count * SizeofGlVec3,
                content |-> Payload(m.colors, m.vertices_count)] >>]

IndexBufferRecord(m) ==
  [size |-> IndexBufferSize(m), usage |-> "INDEX_BUFFER",
   data |-> << [offset |-> 0, bytes |-> m.indices_count * SizeofUint32,
                content |-> Payload(m.indices, m.indices_count)] >>]

\* Whether the miss path asks for an index buffer.
WantsIndexBuffer(m) == m.indices_count > 0

\* The miss path with the outcome of its allocations: what it did, whether it
\* threw, and the entry it inserted. vertOk, indOk: the memory manager's
\* answers to the two AllocBuffer calls.
ReachesInsertAfterVertexAlloc(m, vertOk, indOk) == vertOk

\* Whether control reaches cache.insert: neither AllocBuffer call threw.
ReachesInsert(m, vertOk, indOk) ==
  vertOk /\ (WantsIndexBuffer(m) => indOk)

MissPath(m, vertOk, indOk) ==
  LET vb == nextBuffer
      ib == nextBuffer + 1
      inserts == ReachesInsert(m, vertOk, indOk)
      vAlloc == <<AllocBuffer(VertexBufferSize(m), "VERTEX_BUFFER", vertOk, vb)>>
      iAlloc == <<AllocBuffer(IndexBufferSize(m), "INDEX_BUFFER", indOk, ib)>>
  IN  IF ~vertOk
        THEN [thrown |-> TRUE, inserted |-> inserts, events |-> vAlloc,
              entry |-> <<>>,
              created |-> << >>, allocated |-> 0, vertexUploads |-> 0,
              indexUploads |-> 0]
      ELSE IF ~WantsIndexBuffer(m)
        THEN [thrown |-> FALSE, inserted |-> inserts,
              events |-> vAlloc \o VertexUploadEvents(m, vb)
                          \o <<[op |-> "insert", buffer |-> vb]>>,
              entry |-> <<vb, VK_NULL_HANDLE>>,
              created |-> <<VertexBufferRecord(m)>>, allocated |-> 1,
              vertexUploads |-> 1, indexUploads |-> 0]
      ELSE IF ~indOk
        THEN [thrown |-> TRUE, inserted |-> inserts,
              events |-> vAlloc \o VertexUploadEvents(m, vb) \o iAlloc
                          \o <<BufferEvent("Free", vb)>>,
              entry |-> <<>>, created |-> << >>, allocated |-> 1,
              vertexUploads |-> 1, indexUploads |-> 0]
      ELSE [thrown |-> FALSE, inserted |-> inserts,
            events |-> vAlloc \o VertexUploadEvents(m, vb) \o iAlloc
                        \o IndexUploadEvents(m, ib)
                        \o <<[op |-> "insert", buffer |-> vb]>>,
            entry |-> <<vb, ib>>,
            created |-> <<VertexBufferRecord(m), IndexBufferRecord(m)>>,
            allocated |-> 2, vertexUploads |-> 1, indexUploads |-> 1]

-----------------------------------------------------------------------------
(* The draw path of MeshPipeline::ProcessObject *)

\* The guard of the uniform upload.
UploadsUniform(fi) == fi = 0

UniformEvents(fi) ==
  IF UploadsUniform(fi) THEN <<[op |-> "UniformUpload", buffer |-> 0]>>
  ELSE << >>

\* The draw path without its indexed branch.
DrawEventsNonIndexed(m, entry, fi) ==
  << [op |-> "BindVertexBuffers", buffer |-> entry[1],
      buffers |-> <<entry[1], entry[1]>>,
      offsets |-> <<0, m.vertices_count * SizeofGlVec2>>],
     [op |-> "UniformBind", buffer |-> fi],
     [op |-> "Draw", buffer |-> entry[1],
      count |-> m.vertices_count, instances |-> 1] >>

\* Bind the vertex buffer twice (positions, colors), bind the uniform, draw.
DrawEvents(m, entry, fi) ==
  LET hasIndices == entry[2] # VK_NULL_HANDLE
  IN  << [op |-> "BindVertexBuffers", buffer |-> entry[1],
          buffers |-> <<entry[1], entry[1]>>,
          offsets |-> <<0, ColorsOffset(m)>>],
         [op |-> "UniformBind", buffer |-> fi] >>
      \o (IF hasIndices
            THEN << [op |-> "BindIndexBuffer", buffer |-> entry[2]],
                    [op |-> "DrawIndexed", buffer |-> entry[1],
                     count |-> m.indices_count, instances |-> 1] >>
          ELSE << [op |-> "Draw", buffer |-> entry[1],
                   count |-> m.vertices_count, instances |-> 1] >>)

UploadsOf(m) ==
  IF m \in DOMAIN uploads THEN uploads[m] ELSE [vertex |-> 0, index |-> 0]

NoCall ==
  [op |-> "none", mesh |-> NoMesh, frame_index |-> 0, hit |-> FALSE,
   thrown |-> FALSE, events |-> << >>]

\* void MeshPipeline::ProcessObject(buffer, frame_index, mesh)
ProcessObject(m, vertOk, indOk) ==
  /\ calls < MaxCalls
  /\ calls' = calls + 1
  /\ LET found == CacheFind(cache, m)
         hit == found # {}
         miss == MissPath(m, vertOk, indOk)
         key == IF hit THEN CHOOSE k \in found : TRUE ELSE m
         entry == IF hit THEN cache[key] ELSE miss.entry
         thrown == ~hit /\ miss.thrown
         missEvents == IF hit THEN << >> ELSE miss.events
     IN  /\ IF hit
              THEN UNCHANGED <<cache, buffers, nextBuffer, uploads>>
            ELSE /\ nextBuffer' = nextBuffer + miss.allocated
                 /\ uploads' =
                      [k \in DOMAIN uploads \cup {m} |->
                         IF k = m
                           THEN [vertex |-> UploadsOf(m).vertex
                                              + miss.vertexUploads,
                                 index |-> UploadsOf(m).index
                                             + miss.indexUploads]
                         ELSE uploads[k]]
                 /\ IF ~miss.inserted
                      THEN UNCHANGED <<cache, buffers>>
                    ELSE /\ cache' =
                              [k \in DOMAIN cache \cup {m} |->
                                 IF k = m THEN miss.entry ELSE cache[k]]
                         /\ buffers' =
                              [h \in DOMAIN buffers
                                       \cup {nextBuffer + i - 1 :
                                               i \in 1..Len(miss.created)} |->
                                 IF h \in DOMAIN buffers THEN buffers[h]
                                 ELSE miss.created[h - nextBuffer + 1]]
         /\ IF thrown
              THEN /\ UNCHANGED <<timer, frameUploads>>
                   /\ lastCall' =
                        [op |-> "ProcessObject", mesh |-> m,
                         frame_index |-> frame_index, hit |-> FALSE,
                         thrown |-> TRUE, events |-> missEvents]
            ELSE /\ timer' = timer + 1
                 /\ frameUploads' =
                      frameUploads + Len(UniformEvents(frame_index))
                 /\ lastCall' =
                      [op |-> "ProcessObject", mesh |-> m,
                       frame_index |-> frame_index, hit |-> hit,
                       thrown |-> FALSE,
                       events |-> missEvents \o UniformEvents(frame_index)
                                   \o DrawEvents(m, entry, frame_index)]
  /\ UNCHANGED <<mem, frame_index>>
  /\ UNCHANGED notMeshVars

\* The renderer ends the frame: the in-flight frame index advances.
NextFrame ==
  /\ lastCall.op = "ProcessObject"
  /\ frame_index' = (frame_index + 1) % FramesInFlight
  /\ frameUploads' = 0
  /\ lastCall' = NoCall
  /\ UNCHANGED <<mem, cache, buffers, nextBuffer, uploads, timer, calls>>
  /\ UNCHANGED notMeshVars

MeshInit ==
  /\ mem \in HostMemories
  /\ cache = << >>
  /\ buffers = << >>
  /\ nextBuffer = 1
  /\ uploads = << >>
  /\ timer = 0
  /\ frame_index = 0
  /\ frameUploads = 0
  /\ calls = 0
  /\ lastCall = NoCall

\* A mesh pipeline nobody draws with.
MeshUnused == MeshInit /\ mem = [a \in HostAddr |-> "p"]

MeshNext ==
  \/ \E m \in StaticMesh, vertOk \in BOOLEAN, indOk \in BOOLEAN :
       ProcessObject(m, vertOk, indOk)
  \/ NextFrame

-----------------------------------------------------------------------------
(* Claims about MeshPipeline, checked under SpecMesh *)

\* A step of ProcessObject: the call counter advances.
IsProcessObjectStep == calls' = calls + 1

EventsOf(call, ops) == SelectSeq(call.events, LAMBDA e : e.op \in ops)

UploadOps == {"AllocBuffer", "Map", "memcpy", "Unmap", "Flush", "insert"}

DrawOps == {"BindVertexBuffers", "BindIndexBuffer", "Draw", "DrawIndexed"}

\* C1 (as claimed): content-addressing. Drawables whose vertex, color and
\* index payloads are byte-identical share one cache entry: the second of them
\* finds the entry of the first and uses the same (vertex buffer, index buffer)
\* pair, so no two cache keys with identical payloads hold different buffers.
C1_ContentAddressing ==
  \A k1 \in DOMAIN cache, k2 \in DOMAIN cache :
    MeshPayload(k1) = MeshPayload(k2) => cache[k1] = cache[k2]

C3_ExactSizing ==
  (lastCall.op = "ProcessObject" /\ ~lastCall.hit) =>
    LET m == lastCall.mesh
        allocs == EventsOf(lastCall, {"AllocBuffer"})
    IN  /\ Len(allocs) >= 1
        /\ allocs[1].usage = "VERTEX_BUFFER"
        /\ allocs[1].size = m.vertices_count * (8 + 12)
        /\ \A i \in 2..Len(allocs) :
             /\ allocs[i].usage = "INDEX_BUFFER"
             /\ allocs[i].size = m.indices_count * 4
             /\ m.indices_count > 0
        /\ Len(allocs) =
             (IF m.indices_count > 0 /\ allocs[1].ok THEN 2 ELSE 1)
        /\ ~lastCall.thrown =>
             /\ buffers[cache[m][1]].size = m.vertices_count * (8 + 12)
             /\ IF m.indices_count > 0
                  THEN buffers[cache[m][2]].size = m.indices_count * 4
                ELSE cache[m][2] = VK_NULL_HANDLE

\* C3 witness: a completed miss of a mesh with three vertices and an index.
C3_Witness ==
  /\ lastCall.op = "ProcessObject"
  /\ ~lastCall.hit
  /\ ~lastCall.thrown
  /\ lastCall.mesh.vertices_count = MaxVertices
  /\ lastCall.mesh.indices_count > 0
  /\ Len(EventsOf(lastCall, {"AllocBuffer"})) = 2

\* C9 (as claimed): the uniform binding's Upload is executed at most once per
\* frame.
C9_UniformUploadOncePerFrame == frameUploads <= 1

\* C10: cache unchanged on failure. A ProcessObject call in which an
\* allocation fails throws, inserts no entry for its mesh, leaves the cache
\* and the live buffers exactly as they were and records no bind or draw.
C10_CacheUnchangedOnFailure ==
  [][(IsProcessObjectStep
        /\ \E i \in 1..Len(lastCall'.events) :
             /\ lastCall'.events[i].op = "AllocBuffer"
             /\ ~lastCall'.events[i].ok)
       => /\ lastCall'.thrown
          /\ lastCall'.mesh \notin DOMAIN cache'
          /\ cache' = cache
          /\ buffers' = buffers
          /\ EventsOf(lastCall', DrawOps \cup {"insert"}) = << >>]_vars

\* C10 witness: the index-buffer allocation failed after the vertex buffer
\* was allocated and uploaded, with another mesh already cached.
C10_Witness ==
  /\ lastCall.op = "ProcessObject"
  /\ lastCall.thrown
  /\ Len(EventsOf(lastCall, {"AllocBuffer"})) = 2
  /\ DOMAIN cache # {}

C17_CacheNeverEvicts ==
  [][\A k \in DOMAIN cache :
       /\ k \in DOMAIN cache'
       /\ cache'[k] = cache[k]]_vars

\* C17 witness: a second key was inserted while the first one was cached, and
\* both are there.
C17_Witness ==
  /\ Cardinality(DOMAIN cache) = 2
  /\ lastCall.op = "ProcessObject"
  /\ ~lastCall.hit
  /\ ~lastCall.thrown

\* The buffers a recorded bind or draw command refers to.
BuffersUsedBy(e) ==
  IF e.op = "BindVertexBuffers" THEN {e.buffers[1], e.buffers[2]}
  ELSE IF e.op \in {"BindIndexBuffer", "Draw", "DrawIndexed"} THEN {e.buffer}
  ELSE {}

\* The positions in ev of the events op on buffer b.
PositionsOf(ev, op, b) ==
  {i \in 1..Len(ev) : ev[i].op = op /\ ev[i].buffer = b}

\* Every position of the set before comes before every position of the set
\* after.
Precede(before, after) == \A i \in before : \A j \in after : i < j

\* In the events ev, buffer b is mapped, written, unmapped and flushed in that
\* order, then the entry is inserted, and only then is b bound or drawn.
UploadedBeforeUse(ev, b) ==
  LET maps == PositionsOf(ev, "Map", b)
      copies == PositionsOf(ev, "memcpy", b)
      unmaps == PositionsOf(ev, "Unmap", b)
      flushes == PositionsOf(ev, "Flush", b)
      inserts == {i \in 1..Len(ev) : ev[i].op = "insert"}
      uses == {i \in 1..Len(ev) : b \in BuffersUsedBy(ev[i])}
  IN  /\ Cardinality(maps) = 1
      /\ copies # {}
      /\ Cardinality(unmaps) = 1
      /\ Cardinality(flushes) = 1
      /\ Cardinality(inserts) = 1
      /\ uses # {}
      /\ Precede(maps, copies)
      /\ Precede(copies, unmaps)
      /\ Precede(unmaps, flushes)
      /\ Precede(flushes, inserts)
      /\ Precede(inserts, uses)

\* C22: a ProcessObject call that misses and completes maps, writes, unmaps
\* and flushes the vertex buffer, and the index buffer when the mesh has
\* indices, before it inserts the entry and before any bind or draw command
\* that refers to the buffer; every buffer its commands refer to is one of
\* these; a miss that throws inserts nothing and records no command.
C22_UploadBeforeUse ==
  (lastCall.op = "ProcessObject" /\ ~lastCall.hit) =>
    LET ev == lastCall.events
        m == lastCall.mesh
    IN  IF lastCall.thrown
          THEN \A i \in 1..Len(ev) :
                 ev[i].op # "insert" /\ BuffersUsedBy(ev[i]) = {}
        ELSE /\ m \in DOMAIN cache
             /\ UploadedBeforeUse(ev, cache[m][1])
             /\ (m.indices_count > 0) =>
                  /\ cache[m][2] # VK_NULL_HANDLE
                  /\ UploadedBeforeUse(ev, cache[m][2])
             /\ \A i \in 1..Len(ev) :
                  BuffersUsedBy(ev[i])
                    \subseteq ({cache[m][1], cache[m][2]} \ {VK_NULL_HANDLE})
             /\ \E i \in 1..Len(ev) : BuffersUsedBy(ev[i]) # {}

\* C22 witness: a miss on a mesh with indices uploaded both buffers and
\* recorded an indexed draw.
C22_Witness ==
  /\ lastCall.op = "ProcessObject"
  /\ ~lastCall.hit
  /\ ~lastCall.thrown
  /\ lastCall.mesh.indices_count > 0
  /\ Len(EventsOf(lastCall, {"Flush"})) = 2
  /\ Len(EventsOf(lastCall, {"DrawIndexed"})) = 1

\* C26: two meshes that operator== calls equal have the same hash, so a lookup
\* of a mesh equal to a cached key finds that key, and a ProcessObject call on
\* such a mesh is a hit.
C26_HashEqualityConsistent ==
  /\ [](\A m1, m2 \in StaticMesh :
          MeshEqual(m1, m2) => MeshHash(m1) = MeshHash(m2))
  /\ [](\A k \in DOMAIN cache : \A m \in StaticMesh :
          MeshEqual(k, m) => k \in CacheFind(cache, m))
  /\ [][\A k \in DOMAIN cache :
          (IsProcessObjectStep /\ MeshEqual(k, lastCall'.mesh))
            => lastCall'.hit]_vars

\* C26 witness: a lookup of a mesh equal to a cached key was a hit.
C26_Witness ==
  /\ lastCall.op = "ProcessObject"
  /\ lastCall.hit
  /\ \E k \in DOMAIN cache :
       MeshEqual(k, lastCall.mesh) /\ MeshHash(k) = MeshHash(lastCall.mesh)

\* The vertex-buffer layout of a mesh with V vertices: positions in
\* [0, 8V), colors in [8V, 20V), bound at offsets 0 and 8V of one buffer.
LayoutAgrees(call, h) ==
  LET V == call.mesh.vertices_count
      binds == EventsOf(call, {"BindVertexBuffers"})
      copies == SelectSeq(call.events,
                          LAMBDA e : e.op = "memcpy" /\ e.buffer = h)
      allocs == SelectSeq(call.events,
                          LAMBDA e : e.op = "AllocBuffer" /\ e.buffer = h)
  IN  /\ Len(binds) = 1
      /\ binds[1].buffers = <<h, h>>
      /\ binds[1].offsets = <<0, V * 8>>
      /\ h \in DOMAIN buffers
      /\ buffers[h].size = V * 20
      /\ Len(buffers[h].data) = 2
      /\ buffers[h].data[1].offset = 0
      /\ buffers[h].data[1].bytes = V * 8
      /\ buffers[h].data[2].offset = V * 8
      /\ buffers[h].data[2].bytes = V * 12
      /\ ~call.hit =>
           /\ Len(allocs) = 1
           /\ allocs[1].size = V * 20
           /\ Len(copies) = 2
           /\ copies[1].offset = 0
           /\ copies[1].bytes = V * 8
           /\ copies[1].src = call.mesh.vertices
           /\ copies[2].offset = copies[1].offset + copies[1].bytes
           /\ copies[2].bytes = V * 12
           /\ copies[2].src = call.mesh.colors
           /\ copies[2].offset + copies[2].bytes = allocs[1].size

\* C27: in every completed ProcessObject call, hit or miss, the vertex buffer
\* holds V positions in bytes [0, 8V) and V colors in bytes [8V, 20V), the two
\* regions do not overlap and fill the 20V bytes allocated, and the call binds
\* binding 0 at offset 0 and binding 1 at offset 8V of that one buffer.
C27_LayoutAgreesUploadAndBind ==
  (lastCall.op = "ProcessObject" /\ ~lastCall.thrown) =>
    /\ lastCall.mesh \in DOMAIN cache
    /\ LayoutAgrees(lastCall, cache[lastCall.mesh][1])

\* C27 witness: a hit bound the colors of a three-vertex mesh at offset 24.
C27_Witness ==
  /\ lastCall.op = "ProcessObject"
  /\ lastCall.hit
  /\ lastCall.mesh.vertices_count = 3
  /\ \E i \in 1..Len(lastCall.events) :
       /\ lastCall.events[i].op = "BindVertexBuffers"
       /\ lastCall.events[i].offsets = <<0, 24>>

-----------------------------------------------------------------------------
(* Two threads in MeshPipeline::ProcessObject on one MeshPipeline *)

Threads == {"t1", "t2"}

NoThread == "none"

\* A thread that has not called ProcessObject yet.
IdleThread ==
  [pc |-> "idle", mesh |-> NoMesh, hit |-> FALSE, vb |-> VK_NULL_HANDLE,
   ib |-> VK_NULL_HANDLE, uploaded |-> FALSE, thrown |-> FALSE,
   overlapped |-> FALSE, drew |-> VK_NULL_HANDLE]

RaceInit ==
  /\ threads = [t \in Threads |-> IdleThread]
  /\ externalLock \in BOOLEAN
  /\ lockHolder = NoThread
  /\ entries = << >>
  /\ raced = FALSE

\* A mesh pipeline no second thread uses.
RaceUnused == RaceInit /\ externalLock = FALSE

\* A thread inside ProcessObject.
Active(t) == threads[t].pc \notin {"idle", "done"}

\* The callers' lock: a thread enters only when no other thread holds it.
MayEnter(t) == externalLock => lockHolder = NoThread

\* The callers' lock after thread t left ProcessObject.
Released(t) == IF lockHolder = t THEN NoThread ELSE lockHolder

EntriesOf(m) == IF m \in DOMAIN entries THEN entries[m] ELSE 0

\* A thread calls ProcessObject(buffer, frame_index, mesh); with the callers'
\* lock it waits for the lock first.
RaceCall(t, m) ==
  /\ threads[t].pc = "idle"
  /\ MayEnter(t)
  /\ LET meets == \E u \in Threads \ {t} : Active(u)
     IN  threads' =
           [u \in Threads |->
              IF u = t
                THEN [threads[t] EXCEPT !.pc = "find", !.mesh = m,
                                        !.overlapped = meets]
              ELSE IF Active(u)
                THEN [threads[u] EXCEPT !.overlapped = TRUE]
              ELSE threads[u]]
  /\ lockHolder' = IF externalLock THEN t ELSE lockHolder
  /\ UNCHANGED <<externalLock, entries, raced>>
  /\ UNCHANGED <<meshVars, notMeshRaceVars>>

\* auto cache_it = cache.find(mesh); if (cache_it == cache.end())
RaceFind(t) ==
  /\ threads[t].pc = "find"
  /\ LET hit == CacheFind(cache, threads[t].mesh) # {}
     IN  threads' =
           [threads EXCEPT ![t].hit = hit,
                           ![t].pc = IF hit THEN "draw" ELSE "vertex"]
  /\ UNCHANGED <<externalLock, lockHolder, entries, raced>>
  /\ UNCHANGED <<meshVars, notMeshRaceVars>>

\* The upload counters after one more upload for key m.
Uploaded(m, kind) ==
  [k \in DOMAIN uploads \cup {m} |->
     IF k = m
       THEN [vertex |-> UploadsOf(m).vertex
                          + (IF kind = "vertex" THEN 1 ELSE 0),
             index |-> UploadsOf(m).index
                         + (IF kind = "index" THEN 1 ELSE 0)]
     ELSE uploads[k]]

\* AllocBuffer for the vertex data, Map, the two memcpy, unmap, Flush; a
\* failed allocation throws out of ProcessObject.
RaceUploadVertex(t, ok) ==
  /\ threads[t].pc = "vertex"
  /\ IF ok
       THEN /\ threads' =
                 [threads EXCEPT
                    ![t].vb = nextBuffer, ![t].uploaded = TRUE,
                    ![t].pc = IF WantsIndexBuffer(threads[t].mesh)
                                THEN "index" ELSE "insert"]
            /\ nextBuffer' = nextBuffer + 1
            /\ uploads' = Uploaded(threads[t].mesh, "vertex")
            /\ UNCHANGED lockHolder
     ELSE /\ threads' = [threads EXCEPT ![t].thrown = TRUE, ![t].pc = "done"]
          /\ lockHolder' = Released(t)
          /\ UNCHANGED <<nextBuffer, uploads>>
  /\ UNCHANGED <<externalLock, entries, raced>>
  /\ UNCHANGED <<mem, cache, buffers, timer, frame_index, frameUploads,
                 calls, lastCall>>
  /\ UNCHANGED notMeshRaceVars

\* if (mesh.indices_count > 0): AllocBuffer for the indices, Map, memcpy,
\* unmap, Flush; a failed allocation throws and the vertex buffer is freed.
RaceUploadIndex(t, ok) ==
  /\ threads[t].pc = "index"
  /\ IF ok
       THEN /\ threads' =
                 [threads EXCEPT ![t].ib = nextBuffer, ![t].pc = "insert"]
            /\ nextBuffer' = nextBuffer + 1
            /\ uploads' = Uploaded(threads[t].mesh, "index")
            /\ UNCHANGED lockHolder
     ELSE /\ threads' = [threads EXCEPT ![t].thrown = TRUE, ![t].pc = "done"]
          /\ lockHolder' = Released(t)
          /\ UNCHANGED <<nextBuffer, uploads>>
  /\ UNCHANGED <<externalLock, entries, raced>>
  /\ UNCHANGED <<mem, cache, buffers, timer, frame_index, frameUploads,
                 calls, lastCall>>
  /\ UNCHANGED notMeshRaceVars

\* Whether thread t's cache.insert is unordered with another thread's access
\* to the cache: a data race on the unordered_map.
InsertRaces(t) == ~externalLock /\ threads[t].overlapped

\* What cache.insert can do. Ordered with every other access it adds the key
\* when absent and keeps the existing node when present; in a data race on a
\* present key it may also link a second node for the key.
InsertOutcomes(t) ==
  IF threads[t].mesh \notin DOMAIN cache THEN {"inserted"}
  ELSE IF InsertRaces(t) THEN {"kept", "duplicate"}
  ELSE {"kept"}

\* cache_it = cache.insert(cache.end(), {mesh, {vert_buffer, ind_buffer}})
RaceInsert(t, outcome) ==
  /\ threads[t].pc = "insert"
  /\ outcome \in InsertOutcomes(t)
  /\ LET m == threads[t].mesh
     IN  /\ cache' =
              IF outcome = "inserted"
                THEN [k \in DOMAIN cache \cup {m} |->
                        IF k = m THEN <<threads[t].vb, threads[t].ib>>
                        ELSE cache[k]]
              ELSE cache
         /\ entries' =
              [k \in DOMAIN entries \cup {m} |->
                 IF k = m
                   THEN EntriesOf(m) + (IF outcome = "kept" THEN 0 ELSE 1)
                 ELSE entries[k]]
  /\ raced' = (raced \/ InsertRaces(t))
  /\ threads' = [threads EXCEPT ![t].pc = "draw"]
  /\ UNCHANGED <<externalLock, lockHolder>>
  /\ UNCHANGED <<mem, buffers, nextBuffer, uploads, timer, frame_index,
                 frameUploads, calls, lastCall>>
  /\ UNCHANGED notMeshRaceVars

\* The bind and draw commands on the entry cache_it refers to, and the return.
RaceDraw(t) ==
  /\ threads[t].pc = "draw"
  /\ threads' =
       [threads EXCEPT ![t].pc = "done",
                       ![t].drew = cache[threads[t].mesh][1]]
  /\ lockHolder' = Released(t)
  /\ UNCHANGED <<externalLock, entries, raced>>
  /\ UNCHANGED <<meshVars, notMeshRaceVars>>

RaceNext ==
  \/ \E t \in Threads, m \in StaticMesh : RaceCall(t, m)
  \/ \E t \in Threads : RaceFind(t)
  \/ \E t \in Threads, ok \in BOOLEAN : RaceUploadVertex(t, ok)
  \/ \E t \in Threads, ok \in BOOLEAN : RaceUploadIndex(t, ok)
  \/ \E t \in Threads, outcome \in {"inserted", "kept", "duplicate"} :
       RaceInsert(t, outcome)
  \/ \E t \in Threads : RaceDraw(t)

\* The threads whose call on key m uploaded vertex data and was not aborted.
CompletedUploaders(m) ==
  {t \in Threads : /\ threads[t].mesh = m
                   /\ threads[t].uploaded
                   /\ ~threads[t].thrown}

\* The threads whose call on key m was aborted after its vertex upload.
AbortedUploaders(m) ==
  {t \in Threads : /\ threads[t].mesh = m
                   /\ threads[t].uploaded
                   /\ threads[t].thrown}

C23_WitnessSerialized ==
  /\ externalLock
  /\ threads["t1"].mesh = threads["t2"].mesh
  /\ \A t \in Threads : threads[t].pc = "done" /\ ~threads[t].thrown
  /\ \E t \in Threads : threads[t].hit
  /\ threads["t1"].drew = threads["t2"].drew
  /\ UploadsOf(threads["t1"].mesh).vertex = 1

-----------------------------------------------------------------------------
(* PipelineBuilder: the configuration surface *)

ShaderTypes ==
  {"Vertex", "TessellationControl", "TessellationEvaluation", "Geometry",
   "Fragment", "Compute"}

\* Of the enumerations of Context.hpp, the values a construction sequence
\* configures here: two polygon modes, two culling modes, both windings.
PolygonModes == {"Fill", "Line"}

FrontFaces == {"CW", "CCW"}

CullingModes == {"None", "BackFace"}

\* Line widths considered: 1.0f and 2.0f.
LineWidths == {1, 2}

\* The blend configurations considered: blending off, and alpha blending.
BlendDisabled ==
  [enabled |-> FALSE, colorOp |-> "Add", alphaOp |-> "Add",
   srcColor |-> "One", dstColor |-> "Zero",
   srcAlpha |-> "One", dstAlpha |-> "Zero"]

BlendAlpha ==
  [enabled |-> TRUE, colorOp |-> "Add", alphaOp |-> "Subtract",
   srcColor |-> "SrcAlpha", dstColor |-> "OneMinusSrcAlpha",
   srcAlpha |-> "OneMinusDstAlpha", dstAlpha |-> "One"]

BlendConfigs == {BlendDisabled, BlendAlpha}

\* The shaders a construction sequence attaches: the mesh pipeline's two.
AttachableShaders ==
  {<<"Vertex", "triangle_vert.spv">>, <<"Fragment", "triangle_frag.spv">>}

Subpasses == {0, 1}

DriverResults == {"VK_SUCCESS", "VK_ERROR_OUT_OF_DEVICE_MEMORY"}

\* What a caller can receive from a function that ends without a return
\* statement: the handle just created, a null handle, or anything else.
ReturnOutcomes == {"created", "null", "indeterminate"}

\* VkShaderStageFlagBits of a ShaderType: the mapping table, by enum order.
ShaderType2ShaderStageFlag(type) ==
  CASE type = "Vertex" -> "VK_SHADER_STAGE_VERTEX_BIT"
    [] type = "TessellationControl" ->
         "VK_SHADER_STAGE_TESSELLATION_CONTROL_BIT"
    [] type = "TessellationEvaluation" ->
         "VK_SHADER_STAGE_TESSELLATION_EVALUATION_BIT"
    [] type = "Geometry" -> "VK_SHADER_STAGE_GEOMETRY_BIT"
    [] type = "Fragment" -> "VK_SHADER_STAGE_FRAGMENT_BIT"
    [] type = "Compute" -> "VK_SHADER_STAGE_COMPUTE_BIT"

\* The color blend attachment the constructor puts into the builder.
DefaultColorBlendAttachment ==
  [colorWriteMask |-> {"R", "G", "B", "A"},
   blendEnable |-> FALSE,
   srcColorBlendFactor |-> "VK_BLEND_FACTOR_ONE",
   dstColorBlendFactor |-> "VK_BLEND_FACTOR_ZERO",
   colorBlendOp |-> "VK_BLEND_OP_ADD",
   srcAlphaBlendFactor |-> "VK_BLEND_FACTOR_ONE",
   dstAlphaBlendFactor |-> "VK_BLEND_FACTOR_ZERO",
   alphaBlendOp |-> "VK_BLEND_OP_ADD"]

\* A constructor that makes only the viewport dynamic.
ViewportOnlyDynamicStates == <<"VK_DYNAMIC_STATE_VIEWPORT">>

\* The dynamic states the constructor puts into the builder.
DefaultDynamicStates ==
  <<"VK_DYNAMIC_STATE_VIEWPORT", "VK_DYNAMIC_STATE_SCISSOR">>

NoMake ==
  [thrown |-> FALSE, error |-> [what |-> "", code |-> ""],
   requested |-> FALSE, request |-> << >>, created |-> {},
   events |-> << >>, returned |-> "none"]

\* PipelineBuilder::PipelineBuilder(). The scalar members get their values
\* from the class declaration, which is any value of their type here.
BuilderInit ==
  /\ m_lineWidth \in LineWidths
  /\ m_polygonMode \in PolygonModes
  /\ m_cullingMode \in CullingModes
  /\ m_frontFace \in FrontFaces
  /\ \E b \in BlendConfigs :
       /\ m_blendEnabled = b.enabled
       /\ m_blendColorOp = b.colorOp
       /\ m_blendAlphaOp = b.alphaOp
       /\ m_blendSrcColorFactor = b.srcColor
       /\ m_blendDstColorFactor = b.dstColor
       /\ m_blendSrcAlphaFactor = b.srcAlpha
       /\ m_blendDstAlphaFactor = b.dstAlpha
  /\ m_attachedShaders = << >>
  /\ m_dynamicStates = DefaultDynamicStates
  /\ m_colorBlendAttachments = <<DefaultColorBlendAttachment>>
  /\ shaderModules = {}
  /\ nextModule = 1
  /\ makes = 0
  /\ builderOp = "PipelineBuilder"
  /\ resetClean = FALSE
  /\ lastMake = NoMake

\* A builder nobody uses: constructed, reset and left alone.
BuilderUnused ==
  /\ BuilderInit
  /\ m_lineWidth = 1
  /\ m_polygonMode = "Fill"
  /\ m_cullingMode = "None"
  /\ m_frontFace = "CCW"
  /\ ~m_blendEnabled

\* The setters of the fixed-function configuration. Each changes its own
\* members and nothing else of the builder.
Configured(changed) ==
  /\ builderOp' = "Configure"
  /\ resetClean' = FALSE
  /\ lastMake' = NoMake
  /\ \A i \in 1..Len(changed) : changed[i]
  /\ UNCHANGED <<m_attachedShaders, m_dynamicStates, m_colorBlendAttachments,
                 shaderModules, nextModule, makes>>
  /\ UNCHANGED notBuilderVars

SetLineWidth(lw) ==
  /\ m_lineWidth' = lw
  /\ UNCHANGED <<m_polygonMode, m_cullingMode, m_frontFace, blendVars>>
  /\ Configured(<<lw # m_lineWidth>>)

SetPolygonMode(pm) ==
  /\ m_polygonMode' = pm
  /\ UNCHANGED <<m_lineWidth, m_cullingMode, m_frontFace, blendVars>>
  /\ Configured(<<pm # m_polygonMode>>)

SetCullingMode(cm) ==
  /\ m_cullingMode' = cm
  /\ UNCHANGED <<m_lineWidth, m_polygonMode, m_frontFace, blendVars>>
  /\ Configured(<<cm # m_cullingMode>>)

SetFrontFace(ff) ==
  /\ m_frontFace' = ff
  /\ UNCHANGED <<m_lineWidth, m_polygonMode, m_cullingMode, blendVars>>
  /\ Configured(<<ff # m_frontFace>>)

SetBlending(b) ==
  /\ m_blendEnabled' = b.enabled
  /\ m_blendColorOp' = b.colorOp
  /\ m_blendAlphaOp' = b.alphaOp
  /\ m_blendSrcColorFactor' = b.srcColor
  /\ m_blendDstColorFactor' = b.dstColor
  /\ m_blendSrcAlphaFactor' = b.srcAlpha
  /\ m_blendDstAlphaFactor' = b.dstAlpha
  /\ UNCHANGED rasterVars
  /\ Configured(<<TRUE>>)

\* void PipelineBuilder::Reset()
Reset ==
  /\ m_lineWidth' = 1
  /\ m_polygonMode' = "Fill"
  /\ m_cullingMode' = "None"
  /\ m_frontFace' = "CCW"
  /\ m_blendEnabled' = FALSE
  /\ m_blendColorOp' = "Add"
  /\ m_blendAlphaOp' = "Add"
  /\ m_blendSrcColorFactor' = "One"
  /\ m_blendDstColorFactor' = "Zero"
  /\ m_blendSrcAlphaFactor' = "One"
  /\ m_blendDstAlphaFactor' = "Zero"
  /\ builderOp' = "Reset"
  /\ resetClean' = TRUE
  /\ lastMake' = NoMake
  /\ UNCHANGED <<m_attachedShaders, m_dynamicStates, m_colorBlendAttachments,
                 shaderModules, nextModule, makes>>
  /\ UNCHANGED notBuilderVars

\* void PipelineBuilder::AttachShader(type, path)
AttachShader(type, path) ==
  /\ Len(m_attachedShaders) < MaxShaders
  /\ m_attachedShaders' = Append(m_attachedShaders, <<type, path>>)
  /\ builderOp' = "AttachShader"
  /\ lastMake' = NoMake
  /\ UNCHANGED <<rasterVars, blendVars, m_dynamicStates,
                 m_colorBlendAttachments, shaderModules, nextModule, makes,
                 resetClean>>
  /\ UNCHANGED notBuilderVars

-----------------------------------------------------------------------------
(* PipelineBuilder::Make *)

\* VkPipelineRasterizationStateCreateInfo as Make fills it.
RasterizationInfo ==
  [depthClampEnable |-> FALSE,
   polygonMode |-> "VK_POLYGON_MODE_FILL",
   rasterizerDiscardEnable |-> FALSE,
   lineWidth |-> m_lineWidth,
   cullMode |-> "VK_CULL_MODE_BACK_BIT",
   frontFace |-> "VK_FRONT_FACE_CLOCKWISE",
   depthBiasEnable |-> FALSE]

\* The shader modules built by the loop, up to the attachment that fails to
\* load (failAt = 0: every module loads).
LoadedCount(failAt) ==
  IF failAt = 0 THEN Len(m_attachedShaders) ELSE failAt - 1

ModuleOf(i) == nextModule + i - 1

\* A stage array that keeps one stage per ShaderType, the first attached.
ShaderStagesOnePerType(failAt) ==
  LET kept == SelectSeq([i \in 1..LoadedCount(failAt) |-> i],
                        LAMBDA i : \A j \in 1..(i - 1) :
                                     m_attachedShaders[j][1]
                                       # m_attachedShaders[i][1])
  IN  [k \in 1..Len(kept) |->
         [stage |-> ShaderType2ShaderStageFlag(m_attachedShaders[kept[k]][1]),
          pName |-> "main",
          module |-> ModuleOf(kept[k])]]

ShaderStages(failAt) ==
  [i \in 1..LoadedCount(failAt) |->
     [stage |-> ShaderType2ShaderStageFlag(m_attachedShaders[i][1]),
      pName |-> "main",
      module |-> ModuleOf(i)]]

\* VkGraphicsPipelineCreateInfo as Make fills it.
PipelineInfo(renderPass, subpass_index, layout) ==
  [layout |-> layout,
   renderPass |-> renderPass,
   subpass |-> subpass_index,
   stages |-> ShaderStages(0),
   dynamicStates |-> m_dynamicStates,
   topology |-> "VK_PRIMITIVE_TOPOLOGY_TRIANGLE_LIST",
   viewportCount |-> 1,
   scissorCount |-> 1,
   rasterization |-> RasterizationInfo,
   rasterizationSamples |-> "VK_SAMPLE_COUNT_1_BIT",
   colorBlendAttachments |-> m_colorBlendAttachments]

LoadEvents(failAt) ==
  [i \in 1..(IF failAt = 0 THEN Len(m_attachedShaders) ELSE failAt) |->
     [op |-> "BuildShaderModule", path |-> m_attachedShaders[i][2],
      module |-> IF i = failAt THEN VK_NULL_HANDLE ELSE ModuleOf(i),
      ok |-> i # failAt]]

DestroyEvents(n) ==
  [i \in 1..n |-> [op |-> "vkDestroyShaderModule", module |-> ModuleOf(i)]]

\* A Make that leaves without destroying any module.
DestroyedNever(thrown, n) == 0

\* The shader modules Make destroys before it leaves, by the way it leaves:
\* the cleanup loop runs only after a successful pipeline creation.
DestroyedOnExit(thrown, n) == IF thrown THEN 0 ELSE n

\* The ways a Make call over n attachments can go: a module fails to load
\* (failAt), the driver rejects the pipeline (res), or the pipeline is created
\* and the caller receives something (ret).
MakeOutcomes(n) ==
  {[failAt |-> i, res |-> "none", ret |-> "none"] : i \in 1..n}
    \cup {[failAt |-> 0, res |-> r, ret |-> "none"] :
            r \in DriverResults \ {"VK_SUCCESS"}}
    \cup {[failAt |-> 0, res |-> "VK_SUCCESS", ret |-> r] :
            r \in ReturnOutcomes}

\* vk::Pipeline PipelineBuilder::Make(device, renderPass, subpass_index, layout)
Make(subpass_index, failAt, res, ret) ==
  /\ makes < MaxMakes
  /\ makes' = makes + 1
  /\ builderOp' = "Make"
  /\ LET n == LoadedCount(failAt)
         created == {ModuleOf(i) : i \in 1..n}
         requested == failAt = 0
         thrown == failAt # 0 \/ res # "VK_SUCCESS"
         destroyed == DestroyedOnExit(thrown, n)
         info == PipelineInfo("renderPass", subpass_index, "layout")
     IN  /\ nextModule' = nextModule + n
         /\ shaderModules' =
              (shaderModules \cup created)
                \ {ModuleOf(i) : i \in 1..destroyed}
         /\ lastMake' =
              [thrown |-> thrown,
               error |->
                 IF failAt # 0
                   THEN [what |-> "BuildShaderModule", code |-> "unknown"]
                 ELSE IF res # "VK_SUCCESS"
                   THEN [what |-> "Failed to create graphics pipeline",
                         code |-> res]
                 ELSE [what |-> "", code |-> ""],
               requested |-> requested,
               request |-> IF requested THEN info ELSE << >>,
               created |-> created,
               events |->
                 LoadEvents(failAt)
                   \o (IF requested
                         THEN <<[op |-> "vkCreateGraphicsPipelines",
                                 result |-> res]>>
                       ELSE << >>)
                   \o DestroyEvents(destroyed),
               returned |-> IF thrown THEN "none" ELSE ret]
  /\ UNCHANGED <<rasterVars, blendVars, m_attachedShaders, m_dynamicStates,
                 m_colorBlendAttachments, resetClean>>
  /\ UNCHANGED notBuilderVars

BuilderNext ==
  \/ \E lw \in LineWidths : SetLineWidth(lw)
  \/ \E pm \in PolygonModes : SetPolygonMode(pm)
  \/ \E cm \in CullingModes : SetCullingMode(cm)
  \/ \E ff \in FrontFaces : SetFrontFace(ff)
  \/ \E b \in BlendConfigs : SetBlending(b)
  \/ Reset
  \/ \E sh \in AttachableShaders : AttachShader(sh[1], sh[2])
  \/ \E sp \in Subpasses, o \in MakeOutcomes(Len(m_attachedShaders)) :
       Make(sp, o.failAt, o.res, o.ret)

-----------------------------------------------------------------------------
(* Claims about PipelineBuilder, checked under SpecBuilder *)

\* C4 (as claimed): builder default invariant. After Reset(), with no further
\* configuration, the pipeline that Make requests from the driver has line
\* width 1.0, polygon mode fill, no culling, counter-clockwise front face and
\* blending disabled with one/zero factors and the add operation.
C4_ResetDefaultsReachDriver ==
  (builderOp = "Make" /\ resetClean /\ lastMake.requested) =>
    LET r == lastMake.request.rasterization
    IN  /\ r.lineWidth = 1
        /\ r.polygonMode = "VK_POLYGON_MODE_FILL"
        /\ r.cullMode = "VK_CULL_MODE_NONE"
        /\ r.frontFace = "VK_FRONT_FACE_COUNTER_CLOCKWISE"
        /\ \A i \in 1..Len(lastMake.request.colorBlendAttachments) :
             LET a == lastMake.request.colorBlendAttachments[i]
             IN  /\ ~a.blendEnable
                 /\ a.srcColorBlendFactor = "VK_BLEND_FACTOR_ONE"
                 /\ a.dstColorBlendFactor = "VK_BLEND_FACTOR_ZERO"
                 /\ a.colorBlendOp = "VK_BLEND_OP_ADD"
                 /\ a.srcAlphaBlendFactor = "VK_BLEND_FACTOR_ONE"
                 /\ a.dstAlphaBlendFactor = "VK_BLEND_FACTOR_ZERO"
                 /\ a.alphaBlendOp = "VK_BLEND_OP_ADD"

\* C5 (as claimed): Reset() clears the attached-shader list.
C5_ResetClearsShaders ==
  builderOp = "Reset" => m_attachedShaders = << >>

\* C6 (as claimed): when Make fails, every shader module created by that call
\* has been destroyed before the error propagates, and a rejected pipeline
\* creation raises an error carrying the driver status code.
C6_FailedMakeReleasesModules ==
  (builderOp = "Make" /\ lastMake.thrown) =>
    /\ lastMake.created \cap shaderModules = {}
    /\ lastMake.requested => lastMake.error.code \in DriverResults

\* C13 (as claimed): Make issues the driver's pipeline-creation request only
\* when the attached-shader list holds a Vertex stage, so never with an empty
\* list.
C13_RequestNeedsVertexStage ==
  (builderOp = "Make" /\ lastMake.requested) =>
    \E i \in 1..Len(m_attachedShaders) : m_attachedShaders[i][1] = "Vertex"

\* The driver's encodings of the configurable rasterization values.
VkPolygonModeOf(pm) ==
  IF pm = "Fill" THEN "VK_POLYGON_MODE_FILL" ELSE "VK_POLYGON_MODE_LINE"

VkCullModeOf(cm) ==
  IF cm = "None" THEN "VK_CULL_MODE_NONE" ELSE "VK_CULL_MODE_BACK_BIT"

VkFrontFaceOf(ff) ==
  IF ff = "CW" THEN "VK_FRONT_FACE_CLOCKWISE"
  ELSE "VK_FRONT_FACE_COUNTER_CLOCKWISE"

\* C19 (as claimed): the rasterization state of the pipeline-creation request
\* carries the configured culling mode, front-face winding, polygon mode and
\* line width.
C19_RasterizationFromConfiguration ==
  (builderOp = "Make" /\ lastMake.requested) =>
    /\ lastMake.request.rasterization.cullMode = VkCullModeOf(m_cullingMode)
    /\ lastMake.request.rasterization.frontFace = VkFrontFaceOf(m_frontFace)
    /\ lastMake.request.rasterization.polygonMode
         = VkPolygonModeOf(m_polygonMode)
    /\ lastMake.request.rasterization.lineWidth = m_lineWidth

\* Positions in a Make call's event sequence of the events with the given op.
MakeEventsAt(op) ==
  {i \in 1..Len(lastMake.events) : lastMake.events[i].op = op}

\* C20: when Make succeeds, every module it loaded is destroyed exactly once,
\* as many are destroyed as were loaded, every destruction comes after the
\* pipeline-creation request, and none of the modules is live afterwards.
C20_ModulesReleasedOnSuccess ==
  (builderOp = "Make" /\ ~lastMake.thrown) =>
    LET loads == MakeEventsAt("BuildShaderModule")
        creates == MakeEventsAt("vkCreateGraphicsPipelines")
        destroys == MakeEventsAt("vkDestroyShaderModule")
    IN  /\ Cardinality(creates) = 1
        /\ Cardinality(loads) = Cardinality(destroys)
        /\ Cardinality(loads) = Len(m_attachedShaders)
        /\ {lastMake.events[i].module : i \in loads} = lastMake.created
        /\ \A l \in loads :
             Cardinality({d \in destroys :
                            lastMake.events[d].module
                              = lastMake.events[l].module}) = 1
        /\ \A l \in loads, c \in creates : l < c
        /\ \A d \in destroys, c \in creates : c < d
        /\ lastMake.created \cap shaderModules = {}

\* C20 witness: a Make over two attached shaders succeeded.
C20_Witness ==
  /\ builderOp = "Make"
  /\ ~lastMake.thrown
  /\ Cardinality(lastMake.created) = 2
  /\ Cardinality(MakeEventsAt("vkDestroyShaderModule")) = 2

\* C21: when Make reaches the pipeline-creation request it has loaded one
\* module per attachment, in attachment order, and the stage array handed to
\* the driver has one entry per attachment, entry i carrying the stage flag of
\* the i-th attachment's ShaderType and the module loaded for it, also when
\* attachments share a ShaderType.
C21_OneStagePerAttachment ==
  (builderOp = "Make" /\ lastMake.requested) =>
    LET n == Len(m_attachedShaders)
        loads == SelectSeq(lastMake.events,
                           LAMBDA e : e.op = "BuildShaderModule")
        stages == lastMake.request.stages
    IN  /\ Len(loads) = n
        /\ Len(stages) = n
        /\ Cardinality({loads[i].module : i \in 1..n}) = n
        /\ \A i \in 1..n :
             /\ loads[i].ok
             /\ loads[i].path = m_attachedShaders[i][2]
             /\ stages[i].module = loads[i].module
             /\ stages[i].stage =
                  (CASE m_attachedShaders[i][1] = "Vertex" ->
                          "VK_SHADER_STAGE_VERTEX_BIT"
                     [] m_attachedShaders[i][1] = "Fragment" ->
                          "VK_SHADER_STAGE_FRAGMENT_BIT"
                     [] OTHER -> "other")

\* C21 witness: Make issued its request with two attachments of the same
\* ShaderType.
C21_Witness ==
  /\ builderOp = "Make"
  /\ lastMake.requested
  /\ Len(m_attachedShaders) = 2
  /\ m_attachedShaders[1][1] = m_attachedShaders[2][1]
  /\ Len(lastMake.request.stages) = 2

\* C24: the dynamic states of every pipeline-creation request include viewport
\* and scissor, whatever builder operations came before, and the builder's own
\* dynamic-state list always includes both.
C24_ViewportScissorDynamic ==
  /\ \E i \in 1..Len(m_dynamicStates) :
       m_dynamicStates[i] = "VK_DYNAMIC_STATE_VIEWPORT"
  /\ \E i \in 1..Len(m_dynamicStates) :
       m_dynamicStates[i] = "VK_DYNAMIC_STATE_SCISSOR"
  /\ (builderOp = "Make" /\ lastMake.requested) =>
       LET ds == lastMake.request.dynamicStates
       IN  /\ \E i \in 1..Len(ds) : ds[i] = "VK_DYNAMIC_STATE_VIEWPORT"
           /\ \E i \in 1..Len(ds) : ds[i] = "VK_DYNAMIC_STATE_SCISSOR"

\* C24 witness: a second Make, after a Reset, issued its request.
C24_Witness ==
  /\ builderOp = "Make"
  /\ lastMake.requested
  /\ makes = 2
  /\ resetClean
  /\ m_attachedShaders # << >>

\* C25 (as claimed): a Make that succeeds returns to its caller the handle of
\* the pipeline the creation request produced.
C25_MakeReturnsPipeline ==
  (builderOp = "Make" /\ ~lastMake.thrown) => lastMake.returned = "created"

-----------------------------------------------------------------------------
(* Command buffers: ICommandBuffer, its recording and merge protocol *)

CommandBuffers == {"exec", "tlA", "tlB"}

\* CommandBufferType ICommandBuffer::GetType()
GetType(b) == IF b = "exec" THEN "Executable" ELSE "ThreadLocal"

RecordOps == {"DrawVertices", "SetViewport", "SetScissor"}

NoResult == [op |-> "none", buffer |-> "none", source |-> "none", ok |-> TRUE]

Result(op, b, src, ok) == [op |-> op, buffer |-> b, source |-> src, ok |-> ok]

CmdInit ==
  /\ cbState = [b \in CommandBuffers |-> "Idle"]
  /\ cbCommands = [b \in CommandBuffers |-> << >>]
  /\ cbSerial = 0
  /\ cbMerged = 0
  /\ cbSubmitted = [done |-> FALSE, stream |-> << >>]
  /\ cbResult = NoResult

\* A rejected operation is a protocol violation: the program fails fast, and
\* nothing is issued after it.
Running == cbResult.ok

\* Whether a buffer in the given state accepts BeginWriting.
CanBeginWriting(state) == state = "Idle"

CanRecordAnyState(state) == TRUE

\* Whether a buffer in the given state accepts a draw/viewport/scissor command.
CanRecord(state) == state = "Writing"

CanResetAnyState(state) == TRUE

\* Whether a buffer in the given state accepts Reset.
CanReset(state) == state = "Idle"

\* AddCommands accepted whatever the target is doing.
CanAddCommandsMidWrite(target, source) ==
  /\ GetType(target) = "Executable"
  /\ GetType(source) = "ThreadLocal"
  /\ cbState[source] = "Idle"
  /\ ~cbSubmitted.done

\* Whether AddCommands(source) on target is accepted: an executable target that
\* is neither writing nor submitted, a thread-local source that ended writing.
CanAddCommands(target, source) ==
  /\ GetType(target) = "Executable"
  /\ GetType(source) = "ThreadLocal"
  /\ cbState[target] = "Idle"
  /\ cbState[source] = "Idle"
  /\ ~cbSubmitted.done

MergeInFront(targetCommands, sourceCommands) == sourceCommands \o targetCommands

\* What AddCommands leaves in the target: the source's commands behind its own.
Merge(targetCommands, sourceCommands) == targetCommands \o sourceCommands

\* void ICommandBuffer::BeginWriting(framebuffer, pipeline)
BeginWriting(b) ==
  /\ Running
  /\ ~cbSubmitted.done
  /\ IF CanBeginWriting(cbState[b])
       THEN /\ cbState' = [cbState EXCEPT ![b] = "Writing"]
            /\ cbResult' = Result("BeginWriting", b, "none", TRUE)
     ELSE /\ cbResult' = Result("BeginWriting", b, "none", FALSE)
          /\ UNCHANGED cbState
  /\ UNCHANGED <<cbCommands, cbSerial, cbMerged, cbSubmitted>>
  /\ UNCHANGED notCmdVars

\* void ICommandBuffer::EndWriting()
EndWriting(b) ==
  /\ Running
  /\ ~cbSubmitted.done
  /\ IF cbState[b] = "Writing"
       THEN /\ cbState' = [cbState EXCEPT ![b] = "Idle"]
            /\ cbResult' = Result("EndWriting", b, "none", TRUE)
     ELSE /\ cbResult' = Result("EndWriting", b, "none", FALSE)
          /\ UNCHANGED cbState
  /\ UNCHANGED <<cbCommands, cbSerial, cbMerged, cbSubmitted>>
  /\ UNCHANGED notCmdVars

\* DrawVertices, SetViewport, SetScissor: one recorded command each.  A command
\* is kept as the buffer that recorded it and its place in the recording order
\* over all buffers; its kind and arguments play no part in the protocol.
Record(b, op) ==
  /\ Running
  /\ ~cbSubmitted.done
  /\ IF CanRecord(cbState[b])
       THEN /\ cbSerial < MaxRecorded
            /\ cbSerial' = cbSerial + 1
            /\ cbCommands' =
                 [cbCommands EXCEPT
                    ![b] = Append(@, [by |-> b,
                                      serial |-> cbSerial + 1])]
            /\ cbResult' = Result(op, b, "none", TRUE)
     ELSE /\ cbResult' = Result(op, b, "none", FALSE)
          /\ UNCHANGED <<cbCommands, cbSerial>>
  /\ UNCHANGED <<cbState, cbMerged, cbSubmitted>>
  /\ UNCHANGED notCmdVars

\* void ICommandBuffer::Reset()
CommandBufferReset(b) ==
  /\ Running
  /\ ~cbSubmitted.done
  /\ IF CanReset(cbState[b])
       THEN /\ cbCommands' = [cbCommands EXCEPT ![b] = << >>]
            /\ cbResult' = Result("Reset", b, "none", TRUE)
     ELSE /\ cbResult' = Result("Reset", b, "none", FALSE)
          /\ UNCHANGED cbCommands
  /\ UNCHANGED <<cbState, cbSerial, cbMerged, cbSubmitted>>
  /\ UNCHANGED notCmdVars

\* void ICommandBuffer::AddCommands(buffer), called on target with source
AddCommands(target, source) ==
  /\ Running
  /\ IF CanAddCommands(target, source)
       THEN /\ cbMerged < MaxMerges
            /\ cbCommands' =
                 [cbCommands EXCEPT
                    ![target] = Merge(@, cbCommands[source])]
            /\ cbMerged' = cbMerged + 1
            /\ cbResult' = Result("AddCommands", target, source, TRUE)
     ELSE /\ cbResult' = Result("AddCommands", target, source, FALSE)
          /\ UNCHANGED <<cbCommands, cbMerged>>
  /\ UNCHANGED <<cbState, cbSerial, cbSubmitted>>
  /\ UNCHANGED notCmdVars

\* The executable buffer is submitted at the end of the frame; a thread-local
\* buffer is never submitted.
Submit(b) ==
  /\ Running
  /\ GetType(b) = "Executable"
  /\ cbState[b] = "Idle"
  /\ ~cbSubmitted.done
  /\ cbSubmitted' = [done |-> TRUE, stream |-> cbCommands[b]]
  /\ cbResult' = Result("Submit", b, "none", TRUE)
  /\ UNCHANGED <<cbState, cbCommands, cbSerial, cbMerged>>
  /\ UNCHANGED notCmdVars

CmdNext ==
  \/ \E b \in CommandBuffers : BeginWriting(b)
  \/ \E b \in CommandBuffers : EndWriting(b)
  \/ \E b \in CommandBuffers, op \in RecordOps : Record(b, op)
  \/ \E b \in CommandBuffers : CommandBufferReset(b)
  \/ \E t \in CommandBuffers, src \in CommandBuffers : AddCommands(t, src)
  \/ \E b \in CommandBuffers : Submit(b)

-----------------------------------------------------------------------------
(* Claims about the command buffers *)

\* The buffer the last operation was issued on, when there was one.
OpBuffer(result) == result.buffer

RecordedBy(stream, b) == SelectSeq(stream, LAMBDA c : c.by = b)

\* Whether the serials of a stream strictly increase.
InRecordingOrder(stream) ==
  \A i \in 1..Len(stream), j \in 1..Len(stream) :
    i < j => stream[i].serial < stream[j].serial

\* C8: an accepted AddCommands leaves the target holding what it held followed
\* by the source's commands, so merged content appears in AddCommands call
\* order whatever the order the sources were recorded in; a command recorded
\* into an Executable buffer goes behind everything the buffer holds, so the
\* commands recorded into it stay in recording order; the submitted stream is
\* what the Executable buffer held at submission.
C8_MergeOrdering ==
  [][/\ (cbResult'.op = "AddCommands" /\ cbResult'.ok) =>
          cbCommands'[cbResult'.buffer] =
            cbCommands[cbResult'.buffer] \o cbCommands[cbResult'.source]
     /\ (cbResult'.op \in RecordOps /\ cbResult'.ok) =>
          /\ Len(cbCommands'[cbResult'.buffer])
               = Len(cbCommands[cbResult'.buffer]) + 1
          /\ SubSeq(cbCommands'[cbResult'.buffer], 1,
                    Len(cbCommands[cbResult'.buffer]))
               = cbCommands[cbResult'.buffer]
     /\ \A b \in CommandBuffers :
          GetType(b) = "Executable" =>
            InRecordingOrder(RecordedBy(cbCommands'[b], b))
     /\ (cbResult'.op = "Submit" /\ cbResult'.ok) =>
          cbSubmitted'.stream = cbCommands[cbResult'.buffer]
    ]_vars

\* C8 witness: tlB recorded its draw before tlA did, AddCommands(tlA) was
\* called before AddCommands(tlB), and the submitted stream has tlA's draw
\* before tlB's.
C8_Witness ==
  /\ cbSubmitted.done
  /\ cbSubmitted.stream = <<[by |-> "tlA", serial |-> 2],
                            [by |-> "tlB", serial |-> 1]>>

C16_ResetOnlyWhenIdle ==
  [][cbResult'.op = "Reset" =>
       LET b == cbResult'.buffer
       IN  IF cbState[b] = "Idle"
             THEN /\ cbResult'.ok
                  /\ cbCommands'[b] = << >>
                  /\ cbState'[b] = "Idle"
           ELSE /\ ~cbResult'.ok
                /\ cbState[b] = "Writing"
                /\ UNCHANGED <<cbCommands, cbState>>]_vars

\* C16 witness: commands were recorded, and after an accepted Reset no buffer
\* holds any.
C16_Witness ==
  /\ cbResult.op = "Reset"
  /\ cbResult.ok
  /\ cbSerial > 0
  /\ cbMerged = 0
  /\ \A b \in CommandBuffers : cbCommands[b] = << >>

-----------------------------------------------------------------------------
(* Layout builders: DescriptorSetLayoutBuilder and PipelineLayoutBuilder *)

\* The descriptor bindings a construction sequence declares: the mesh
\* pipeline's uniform buffer, and a second uniform buffer.
DescriptorBindings ==
  {[binding |-> 0, descriptorType |-> "VK_DESCRIPTOR_TYPE_UNIFORM_BUFFER",
    descriptorCount |-> 1, stageFlags |-> "VK_SHADER_STAGE_FRAGMENT_BIT"],
   [binding |-> 1, descriptorType |-> "VK_DESCRIPTOR_TYPE_UNIFORM_BUFFER",
    descriptorCount |-> 1, stageFlags |-> "VK_SHADER_STAGE_VERTEX_BIT"]}

\* What vkCreateDescriptorSetLayout and vkCreatePipelineLayout can report.
LayoutResults ==
  {"VK_SUCCESS", "VK_ERROR_OUT_OF_HOST_MEMORY", "VK_ERROR_OUT_OF_DEVICE_MEMORY"}

NoLayoutMake ==
  [op |-> "none", thrown |-> FALSE, error |-> [what |-> "", code |-> ""],
   info |-> << >>, returned |-> VK_NULL_HANDLE]

LayoutInit ==
  /\ m_descriptorsLayout = << >>
  /\ m_layouts = << >>
  /\ layoutObjects = << >>
  /\ nextLayout = 1
  /\ layoutMakes = 0
  /\ lastLayoutMake = NoLayoutMake

\* VkDescriptorSetLayoutCreateInfo as DescriptorSetLayoutBuilder::Make fills it.
DescriptorSetLayoutInfo ==
  [bindingCount |-> Len(m_descriptorsLayout),
   pBindings |-> m_descriptorsLayout]

\* VkPipelineLayoutCreateInfo as PipelineLayoutBuilder::Make fills it.
PipelineLayoutInfo ==
  [setLayoutCount |-> Len(m_layouts),
   pSetLayouts |-> m_layouts,
   pushConstantRangeCount |-> 0]

LayoutMakeNeverThrows(res) == FALSE

\* The test both Make functions apply to the driver's status.
LayoutMakeThrows(res) == res # "VK_SUCCESS"

\* The common body of the two Make functions: call the driver with info; throw
\* if it reports failure, return the new object otherwise.
LayoutMake(op, kind, info, what, res) ==
  /\ layoutMakes < MaxLayoutMakes
  /\ layoutMakes' = layoutMakes + 1
  /\ IF res = "VK_SUCCESS"
       THEN /\ layoutObjects' =
                 [h \in DOMAIN layoutObjects \cup {nextLayout} |->
                    IF h = nextLayout THEN [kind |-> kind, info |-> info]
                    ELSE layoutObjects[h]]
            /\ nextLayout' = nextLayout + 1
     ELSE UNCHANGED <<layoutObjects, nextLayout>>
  /\ lastLayoutMake' =
       [op |-> op,
        thrown |-> LayoutMakeThrows(res),
        error |-> IF LayoutMakeThrows(res)
                    THEN [what |-> what, code |-> res]
                  ELSE [what |-> "", code |-> ""],
        info |-> info,
        returned |-> IF LayoutMakeThrows(res) THEN VK_NULL_HANDLE
                     ELSE nextLayout]
  /\ UNCHANGED <<m_descriptorsLayout, m_layouts>>
  /\ UNCHANGED notLayoutVars

\* vk::DescriptorSetLayout DescriptorSetLayoutBuilder::Make(device) const
DescriptorSetLayoutBuilderMake(res) ==
  LayoutMake("DescriptorSetLayoutBuilder::Make", "DescriptorSetLayout",
             DescriptorSetLayoutInfo,
             "Failed to create descriptor set layout", res)

\* vk::PipelineLayout PipelineLayoutBuilder::Make(device) const
PipelineLayoutBuilderMake(res) ==
  LayoutMake("PipelineLayoutBuilder::Make", "PipelineLayout",
             PipelineLayoutInfo, "Failed to create pipeline layout", res)

\* void DescriptorSetLayoutBuilder::Reset()
DescriptorSetLayoutBuilderReset ==
  /\ m_descriptorsLayout # << >>
  /\ m_descriptorsLayout' = << >>
  /\ lastLayoutMake' = NoLayoutMake
  /\ UNCHANGED <<m_layouts, layoutObjects, nextLayout, layoutMakes>>
  /\ UNCHANGED notLayoutVars

\* Accumulation of a binding by the descriptor set layout builder; a binding
\* number is declared once.
DeclareDescriptor(binding) ==
  /\ \A i \in 1..Len(m_descriptorsLayout) : m_descriptorsLayout[i] # binding
  /\ m_descriptorsLayout' = Append(m_descriptorsLayout, binding)
  /\ lastLayoutMake' = NoLayoutMake
  /\ UNCHANGED <<m_layouts, layoutObjects, nextLayout, layoutMakes>>
  /\ UNCHANGED notLayoutVars

\* Accumulation of a descriptor set layout by the pipeline layout builder; a
\* set layout is added once.
AddLayout(h) ==
  /\ \A i \in 1..Len(m_layouts) : m_layouts[i] # h
  /\ h \in DOMAIN layoutObjects
  /\ layoutObjects[h].kind = "DescriptorSetLayout"
  /\ m_layouts' = Append(m_layouts, h)
  /\ lastLayoutMake' = NoLayoutMake
  /\ UNCHANGED <<m_descriptorsLayout, layoutObjects, nextLayout, layoutMakes>>
  /\ UNCHANGED notLayoutVars

LayoutNext ==
  \/ \E res \in LayoutResults : DescriptorSetLayoutBuilderMake(res)
  \/ \E res \in LayoutResults : PipelineLayoutBuilderMake(res)
  \/ DescriptorSetLayoutBuilderReset
  \/ \E b \in DescriptorBindings : DeclareDescriptor(b)
  \/ \E h \in DOMAIN layoutObjects : AddLayout(h)

\* C14: a layout builder's Make whose driver call reports anything but success
\* raises a construction error carrying that status, returns no layout object
\* and creates none; one whose driver call succeeds returns the new object;
\* either way the builders' accumulated state is as it was, and a Make that
\* directly follows a Make of the same builder hands the driver the same
\* configuration.
C14_LayoutMake ==
  [][layoutMakes' = layoutMakes + 1 =>
       /\ UNCHANGED <<m_descriptorsLayout, m_layouts>>
       /\ \E res \in LayoutResults :
            /\ IF res = "VK_SUCCESS"
                 THEN /\ ~lastLayoutMake'.thrown
                      /\ lastLayoutMake'.returned \in DOMAIN layoutObjects'
                      /\ lastLayoutMake'.returned \notin DOMAIN layoutObjects
                      /\ layoutObjects'[lastLayoutMake'.returned].info
                           = lastLayoutMake'.info
               ELSE /\ lastLayoutMake'.thrown
                    /\ lastLayoutMake'.error.code = res
                    /\ lastLayoutMake'.returned = 0
                    /\ layoutObjects' = layoutObjects
       /\ lastLayoutMake'.info =
            (IF lastLayoutMake'.op = "DescriptorSetLayoutBuilder::Make"
               THEN [bindingCount |-> Len(m_descriptorsLayout),
                     pBindings |-> m_descriptorsLayout]
             ELSE [setLayoutCount |-> Len(m_layouts),
                   pSetLayouts |-> m_layouts,
                   pushConstantRangeCount |-> 0])
       /\ lastLayoutMake.op = lastLayoutMake'.op =>
            lastLayoutMake'.info = lastLayoutMake.info]_vars

\* C14 witness: a Make of the descriptor set layout builder failed right after
\* a Make of the same builder, with a binding declared.
C14_Witness ==
  /\ layoutMakes = 2
  /\ lastLayoutMake.op = "DescriptorSetLayoutBuilder::Make"
  /\ lastLayoutMake.thrown
  /\ lastLayoutMake.error.code = "VK_ERROR_OUT_OF_DEVICE_MEMORY"
  /\ m_descriptorsLayout # << >>
  /\ DOMAIN layoutObjects # {}

-----------------------------------------------------------------------------
(* Framebuffer and swapchain: IFramebuffer, ISwapchain *)

\* The extents considered: the initial size and the size of a resize.
Extents == {<<800, 600>>, <<1024, 768>>}

InitialExtent == <<800, 600>>

SwapchainImages == {"image0", "image1"}

NoFbResult == [op |-> "none", extent |-> InitialExtent]

NoScResult == [op |-> "none", ok |-> TRUE]

FrameInit ==
  /\ fbRequested = InitialExtent
  /\ fbEffective = InitialExtent
  /\ fbResult = NoFbResult
  /\ scOpen = FALSE
  /\ scFrameIndex = 0
  /\ scImage = "none"
  /\ scRecorded = << >>
  /\ scSerial = 0
  /\ scSubmitted = << >>
  /\ scResult = NoScResult

\* The extent of the framebuffer's driver objects once SetExtent was called.
ExtentAfterSetExtentImmediate(requested, effective) == requested

ExtentAfterSetExtent(requested, effective) == effective

\* void IFramebuffer::SetExtent(width, height)
SetExtent(extent) ==
  /\ fbRequested' = extent
  /\ fbEffective' = ExtentAfterSetExtent(extent, fbEffective)
  /\ fbResult' = [op |-> "SetExtent", extent |-> extent]
  /\ UNCHANGED <<scOpen, scFrameIndex, scImage, scRecorded, scSerial,
                 scSubmitted, scResult>>
  /\ UNCHANGED notFrameVars

\* void IFramebuffer::Invalidate(): rebuilds the driver objects with the
\* requested settings.
FramebufferInvalidate ==
  /\ fbEffective' = fbRequested
  /\ fbResult' = [op |-> "Invalidate", extent |-> fbRequested]
  /\ UNCHANGED fbRequested
  /\ UNCHANGED <<scOpen, scFrameIndex, scImage, scRecorded, scSerial,
                 scSubmitted, scResult>>
  /\ UNCHANGED notFrameVars

\* A rejected swapchain call is a protocol violation: nothing follows it.
FrameRunning == scResult.ok

\* The in-flight frame index that never moves.
SameFrameIndex(fi) == fi

\* The in-flight frame index after a frame ended.
NextFrameIndex(fi) == (fi + 1) % FramesInFlight

\* ICommandBuffer * ISwapchain::BeginFrame(): acquires an image and opens the
\* frame.
BeginFrame(image) ==
  /\ FrameRunning
  /\ Len(scSubmitted) < MaxFrames
  /\ IF ~scOpen
       THEN /\ scOpen' = TRUE
            /\ scImage' = image
            /\ scRecorded' = << >>
            /\ scResult' = [op |-> "BeginFrame", ok |-> TRUE]
     ELSE /\ scResult' = [op |-> "BeginFrame", ok |-> FALSE]
          /\ UNCHANGED <<scOpen, scImage, scRecorded>>
  /\ UNCHANGED <<scFrameIndex, scSerial, scSubmitted>>
  /\ UNCHANGED <<fbRequested, fbEffective, fbResult>>
  /\ UNCHANGED notFrameVars

\* A command recorded into the buffer BeginFrame returned.
RecordInFrame ==
  /\ FrameRunning
  /\ scOpen
  /\ Len(scRecorded) < MaxFrameCommands
  /\ scSerial' = scSerial + 1
  /\ scRecorded' = Append(scRecorded, scSerial + 1)
  /\ scResult' = [op |-> "Record", ok |-> TRUE]
  /\ UNCHANGED <<scOpen, scFrameIndex, scImage, scSubmitted>>
  /\ UNCHANGED <<fbRequested, fbEffective, fbResult>>
  /\ UNCHANGED notFrameVars

\* void ISwapchain::EndFrame(): submits the frame's commands, presents its
\* image, advances the frame index.
EndFrame ==
  /\ FrameRunning
  /\ IF scOpen
       THEN /\ scSubmitted' =
                 Append(scSubmitted,
                        [commands |-> scRecorded, presented |-> scImage,
                         frame_index |-> scFrameIndex])
            /\ scOpen' = FALSE
            /\ scImage' = "none"
            /\ scRecorded' = << >>
            /\ scFrameIndex' = NextFrameIndex(scFrameIndex)
            /\ scResult' = [op |-> "EndFrame", ok |-> TRUE]
     ELSE /\ scResult' = [op |-> "EndFrame", ok |-> FALSE]
          /\ UNCHANGED <<scOpen, scImage, scRecorded, scFrameIndex,
                         scSubmitted>>
  /\ UNCHANGED scSerial
  /\ UNCHANGED <<fbRequested, fbEffective, fbResult>>
  /\ UNCHANGED notFrameVars

FrameNext ==
  \/ \E e \in Extents : SetExtent(e)
  \/ FramebufferInvalidate
  \/ \E image \in SwapchainImages : BeginFrame(image)
  \/ RecordInFrame
  \/ EndFrame

\* C12: SetExtent leaves the framebuffer's effective extent as the last
\* Invalidate made it; Invalidate makes the effective extent the one last
\* given to SetExtent; the effective extent changes at no other step.
C12_ResizeProtocol ==
  [][/\ fbResult'.op = "SetExtent" =>
          /\ fbEffective' = fbEffective
          /\ fbRequested' = fbResult'.extent
     /\ (fbResult'.op = "Invalidate" /\ fbResult' # fbResult) =>
          /\ fbEffective' = fbRequested
          /\ fbRequested' = fbRequested
     /\ fbEffective' # fbEffective =>
          /\ fbResult'.op = "Invalidate"
          /\ fbResult.op = "SetExtent"
          /\ fbEffective' = fbResult.extent
    ]_vars

\* C12 witness: SetExtent(1024, 768) was called and not yet invalidated; the
\* effective extent is still the prior one.
C12_Witness ==
  /\ fbResult = [op |-> "SetExtent", extent |-> <<1024, 768>>]
  /\ fbRequested = <<1024, 768>>
  /\ fbEffective = <<800, 600>>

\* C18: BeginFrame is accepted exactly when no frame is open and opens one;
\* EndFrame is accepted exactly when a frame is open, and then it closes the
\* frame, submits exactly the commands recorded since the BeginFrame that
\* opened it, presents the image that BeginFrame acquired, and moves the
\* in-flight frame index one step on, modulo the frames in flight.
C18_FrameLifecycle ==
  [][/\ (scResult'.op = "BeginFrame" /\ scResult' # scResult) =>
          IF scOpen
            THEN /\ ~scResult'.ok
                 /\ UNCHANGED <<scOpen, scRecorded, scSubmitted, scFrameIndex>>
          ELSE /\ scResult'.ok
               /\ scOpen'
               /\ scRecorded' = << >>
               /\ scImage' \in SwapchainImages
               /\ UNCHANGED <<scSubmitted, scFrameIndex>>
     /\ (scResult'.op = "EndFrame" /\ scResult' # scResult) =>
          IF scOpen
            THEN /\ scResult'.ok
                 /\ ~scOpen'
                 /\ Len(scSubmitted') = Len(scSubmitted) + 1
                 /\ SubSeq(scSubmitted', 1, Len(scSubmitted)) = scSubmitted
                 /\ scSubmitted'[Len(scSubmitted')].commands = scRecorded
                 /\ scSubmitted'[Len(scSubmitted')].presented = scImage
                 /\ scFrameIndex' = (scFrameIndex + 1) % FramesInFlight
          ELSE /\ ~scResult'.ok
               /\ UNCHANGED <<scOpen, scRecorded, scSubmitted, scFrameIndex>>
     /\ scOpen' # scOpen =>
          scResult'.op = IF scOpen THEN "EndFrame" ELSE "BeginFrame"
     /\ scFrameIndex' # scFrameIndex => scResult'.op = "EndFrame"
     /\ scRecorded' # scRecorded => scOpen \/ scOpen'
    ]_vars

\* C18 witness: two frames ended; the second submitted the commands recorded
\* after its own BeginFrame, and the frame index came round.
C18_Witness ==
  /\ scResult = [op |-> "EndFrame", ok |-> TRUE]
  /\ Len(scSubmitted) = 2
  /\ scSubmitted[1].commands = <<1>>
  /\ scSubmitted[2].commands = <<2, 3>>
  /\ scSubmitted[2].presented = "image1"
  /\ ~scOpen

-----------------------------------------------------------------------------
(* The specifications: one per subsystem, the others at rest *)

InitMesh ==
  MeshInit /\ BuilderUnused /\ CmdInit /\ LayoutInit /\ FrameInit /\ RaceUnused

SpecMesh == InitMesh /\ [][MeshNext]_vars

InitBuilder ==
  BuilderInit /\ MeshUnused /\ CmdInit /\ LayoutInit /\ FrameInit /\ RaceUnused

SpecBuilder == InitBuilder /\ [][BuilderNext]_vars

InitCmd ==
  CmdInit /\ MeshUnused /\ BuilderUnused /\ LayoutInit /\ FrameInit /\ RaceUnused

SpecCmd == InitCmd /\ [][CmdNext]_vars

InitLayout ==
  LayoutInit /\ MeshUnused /\ BuilderUnused /\ CmdInit /\ FrameInit /\ RaceUnused

SpecLayout == InitLayout /\ [][LayoutNext]_vars

InitFrame ==
  FrameInit /\ MeshUnused /\ BuilderUnused /\ CmdInit /\ LayoutInit
    /\ RaceUnused

SpecFrame == InitFrame /\ [][FrameNext]_vars

InitRace ==
  RaceInit /\ MeshInit /\ BuilderUnused /\ CmdInit /\ LayoutInit /\ FrameInit

SpecRace == InitRace /\ [][RaceNext]_vars

====
